---- MODULE Spec2Model ----
(***************************************************************************)
(* Pathgriho internal ads worker (Sigmakib2/ads).                          *)
(*                                                                         *)
(* Three variants of the worker live in the repository:                    *)
(*   - the KV worker with label targeting   (src/unnamed/part_000)         *)
(*   - the KV worker without label targeting (src/unnamed/part_001), which *)
(*     is the first one with filterByLabels removed: its handlers are the  *)
(*     handlers below run with an empty label list                         *)
(*   - the stateless worker                  (src/src/index.ts)            *)
(*                                                                         *)
(* The KV worker is modelled one step per await that touches the KV store  *)
(* or the config source, so that requests can be interleaved.  Strings are *)
(* TLA+ strings: KV keys, token payloads and label lists are built and     *)
(* taken apart with \o, Len and SubSeq exactly as the code concatenates    *)
(* and splits them.                                                        *)
(*                                                                         *)
(* Outside the repository and idealised here:                              *)
(*   - HMAC-SHA-256 + base64url (crypto.subtle, btoa) is an injective      *)
(*     function of (secret, payload);                                      *)
(*   - Hono hands the /c/:adId handler the path parameter and the query    *)
(*     parameters of the click URL as they were placed in it;              *)
(*   - a KV value written by kvIncr is the decimal text of an integer and  *)
(*     parseInt reads it back, so counters are kept as integers, an absent *)
(*     key reading as 0.                                                   *)
(***************************************************************************)
EXTENDS Integers, Sequences, FiniteSets, TLC

VARIABLES
    today,      \* index into Days: the wall-clock day in DATE_TIMEZONE
    remote,     \* what CONFIG_URL currently serves (a document name)
    cache,      \* KV value under cfg:config (a document name, or NoCache)
    kv,         \* KV counters: key string -> integer
    pc,         \* per in-flight request slot: the await it is parked on
    rq,         \* per slot: the request and the handler's local variables
    resp,       \* per slot: the last response produced
    issued,     \* history: every click URL emitted by a /v1/ads response
    assigned,   \* history: top assignments per <<day, device, ownerId>>
    nreq,       \* number of requests started so far
    overlapped  \* history: some /v1/ads request started while another was in flight

vars == <<today, remote, cache, kv, pc, rq, resp, issued, assigned, nreq, overlapped>>

(***************************************************************************)
(* Bounds                                                                  *)
(***************************************************************************)
MaxRequests == 3
MaxOverlapped == 4
MaxCached == 2
DrawScale == 2

Procs == {1, 2}
Days == <<"2026-11-01", "2026-11-02">>
Devices == {"mobile", "desktop"}

(***************************************************************************)
(* Environment (wrangler vars)                                             *)
(***************************************************************************)
CLICK_TOKEN_SECRET == "k-prod"
Origin == "https://ads.pathgriho.com"

(***************************************************************************)
(* Config documents that CONFIG_URL may serve.  A document is named; the   *)
(* name stands for its JSON text and Doc(name) for JSON.parse of it.       *)
(***************************************************************************)
Cozy == [id |-> "cozy", name |-> "Cozy Corner"]
Fancy == [id |-> "fancy", name |-> "Fancy Stuff"]
Extra == [id |-> "extra", name |-> "Extra Co"]

AdSofa ==
    [id |-> "a1", ownerId |-> "cozy", title |-> "Sofa",
     targetUrl |-> "https://cozy.example/sofa",
     image |-> [desktop |-> "a1-desktop.png", mobile |-> "a1-mobile.png"],
     status |-> "active", weight |-> 3, tags |-> <<"Home">>]
AdLamp ==
    [id |-> "a2", ownerId |-> "fancy", title |-> "Lamp",
     targetUrl |-> "https://fancy.example/lamp",
     image |-> [desktop |-> "a2-desktop.png", mobile |-> "a2-mobile.png"],
     status |-> "active", tags |-> <<"garden">>]
AdSale ==
    [id |-> "sale|a2", ownerId |-> "cozy", title |-> "Sale",
     targetUrl |-> "https://cozy.example/sale",
     image |-> [desktop |-> "a3-desktop.png", mobile |-> "a3-mobile.png"],
     status |-> "active", weight |-> 0]
AdLampPaused == [AdLamp EXCEPT !.status = "inactive"]
AdExtra ==
    [id |-> "a4", ownerId |-> "extra", title |-> "Rug",
     targetUrl |-> "https://extra.example/rug",
     image |-> [desktop |-> "a4-desktop.png", mobile |-> "a4-mobile.png"],
     status |-> "active", weight |-> 5]
AdOrphan ==
    [id |-> "a5", ownerId |-> "nobody", title |-> "Lost",
     targetUrl |-> "https://nobody.example/",
     image |-> [desktop |-> "a5-desktop.png", mobile |-> "a5-mobile.png"],
     status |-> "active"]

ParsableDocs == {"main", "paused", "solo", "trio"}
GarbageDoc == "garbage"
Down == "down"
NoCache == "none"
RemoteStates == ParsableDocs \cup {GarbageDoc, Down}

Doc(name) ==
    CASE name = "main" ->
           [owners |-> <<Cozy, Fancy>>, ads |-> <<AdSofa, AdLamp, AdSale>>]
      [] name = "paused" ->
           [owners |-> <<Cozy, Fancy>>, ads |-> <<AdSofa, AdLampPaused, AdSale>>]
      [] name = "solo" ->
           [owners |-> <<Cozy>>, ads |-> <<AdSofa>>]
      [] name = "trio" ->
           [owners |-> <<Cozy, Fancy, Extra>>,
            ads |-> <<AdSofa, AdLamp, AdExtra, AdOrphan>>]

OwnerIds == {"cozy", "fancy", "extra"}

(***************************************************************************)
(* String helpers standing for String.prototype methods                    *)
(***************************************************************************)
RECURSIVE IndexOf(_, _, _)
IndexOf(s, ch, i) ==
    IF i > Len(s) THEN 0
    ELSE IF SubSeq(s, i, i) = ch THEN i
    ELSE IndexOf(s, ch, i + 1)

RECURSIVE split(_, _)
split(s, sep) ==
    LET i == IndexOf(s, sep, 1)
    IN  IF i = 0 THEN <<s>>
        ELSE <<SubSeq(s, 1, i - 1)>> \o split(SubSeq(s, i + 1, Len(s)), sep)

RECURSIVE trim(_)
trim(s) ==
    IF Len(s) = 0 THEN s
    ELSE IF SubSeq(s, 1, 1) = " " THEN trim(SubSeq(s, 2, Len(s)))
    ELSE IF SubSeq(s, Len(s), Len(s)) = " " THEN trim(SubSeq(s, 1, Len(s) - 1))
    ELSE s

LowerChar(c) ==
    CASE c = "H" -> "h"
      [] c = "G" -> "g"
      [] c = "K" -> "k"
      [] OTHER -> c

RECURSIVE toLowerCase(_)
toLowerCase(s) ==
    IF Len(s) = 0 THEN s
    ELSE LowerChar(SubSeq(s, 1, 1)) \o toLowerCase(SubSeq(s, 2, Len(s)))

Range(f) == {f[i] : i \in DOMAIN f}

Map(f, Op(_)) == [i \in DOMAIN f |-> Op(f[i])]

Max(a, b) == IF a >= b THEN a ELSE b

(***************************************************************************)
(* Utilities of the worker                                                 *)
(***************************************************************************)
includes(s, sub) ==
    \E i \in 1 .. (Len(s) - Len(sub) + 1) : SubSeq(s, i, i + Len(sub) - 1) = sub

\* req.chMobile: the Sec-CH-UA-Mobile header ("" when absent);
\* req.uaMobile: whether the User-Agent matches /Android|iPhone|iPad|iPod|Mobile/i
isMobile(req) ==
    IF req.chMobile # "" THEN includes(req.chMobile, "?1") ELSE req.uaMobile

\* faulty variant: the declared weight is used as it is
EffWeightRaw(x) == IF "weight" \in DOMAIN x THEN x.weight ELSE 1

EffWeight(x) == IF "weight" \in DOMAIN x THEN Max(1, x.weight) ELSE 1

RECURSIVE SumWeights(_, _)
SumWeights(items, i) ==
    IF i > Len(items) THEN 0 ELSE EffWeight(items[i]) + SumWeights(items, i + 1)

\* Math.random() * total, kept as an integer number of 1/DrawScale units
Draws(items) == 0 .. (DrawScale * SumWeights(items, 1) - 1)

RECURSIVE Walk(_, _, _)
Walk(items, r, i) ==
    IF i > Len(items) THEN items[Len(items)]
    ELSE LET r2 == r - DrawScale * EffWeight(items[i])
         IN  IF r2 <= 0 THEN items[i] ELSE Walk(items, r2, i + 1)

weightedRandom(items, r) == Walk(items, r, 1)

normalizeLabels(raw) ==
    IF raw = "" THEN <<>>
    ELSE SelectSeq(Map(split(raw, ","), LAMBDA s : toLowerCase(trim(s))),
                   LAMBDA s : s # "")

dayBucket(ix) == Days[ix]

kvGetInt(store, key) == IF key \in DOMAIN store THEN store[key] ELSE 0

kvPut(store, key, value) ==
    [k \in DOMAIN store \cup {key} |-> IF k = key THEN value ELSE store[k]]

\* faulty variant: an absent token skips the comparison
verifyTokenLoose(secret, payload, token) ==
    token = "" \/ "hmac<" \o secret \o ">(" \o payload \o ")" = token

signToken(secret, payload) == "hmac<" \o secret \o ">(" \o payload \o ")"

verifyToken(secret, payload, token) == signToken(secret, payload) = token

AdTags(a) == IF "tags" \in DOMAIN a THEN a.tags ELSE <<>>

\* faulty variant: no fallback when no ad matches
filterByLabelsNoFallback(ads, labels) ==
    IF Len(labels) = 0 THEN ads
    ELSE SelectSeq(ads, LAMBDA a :
             \E i \in DOMAIN AdTags(a) : toLowerCase(AdTags(a)[i]) \in Range(labels))

filterByLabels(ads, labels) ==
    IF Len(labels) = 0 THEN ads
    ELSE LET labelSet == Range(labels)
             matched == SelectSeq(ads, LAMBDA a :
                            \E i \in DOMAIN AdTags(a) :
                                toLowerCase(AdTags(a)[i]) \in labelSet)
         IN  IF Len(matched) > 0 THEN matched ELSE ads

(***************************************************************************)
(* KV key shapes and the click-token payload                               *)
(***************************************************************************)
\* faulty variant: one top counter per owner and day for both device classes
TopKeyNoDevice(day, device, ownerId) == "imp:" \o day \o ":top:" \o ownerId

TopKey(day, device, ownerId) == "imp:" \o day \o ":top:" \o device \o ":" \o ownerId
AdImpKey(day, adId) == "imp:" \o day \o ":ad:" \o adId
AdClkKey(day, adId) == "clk:" \o day \o ":ad:" \o adId
\* faulty variant: position clicks are filed under the impression prefix
PosClkKeyImp(day, pos, dev, ownerId) ==
    "imp:" \o day \o ":" \o pos \o ":" \o dev \o ":" \o ownerId

PosClkKey(day, pos, dev, ownerId) ==
    "clk:" \o day \o ":" \o pos \o ":" \o dev \o ":" \o ownerId

\* faulty variant: the device is left out of the signed text
PayloadNoDevice(day, device, pos, adId) ==
    day \o "|" \o pos \o "|" \o adId

Payload(day, device, pos, adId) ==
    day \o "|" \o device \o "|" \o pos \o "|" \o adId

ClickUrl(adId, t, pos, day, device) ==
    [origin |-> Origin, adId |-> adId, t |-> t, pos |-> pos, d |-> day, dev |-> device]

ImageFor(ad, device) == IF device = "mobile" THEN ad.image.mobile ELSE ad.image.desktop

(***************************************************************************)
(* Requests, responses, handler plumbing                                   *)
(***************************************************************************)
NoReq == [kind |-> "none"]
NoResp == [status |-> 0, kind |-> "none"]
EmptyKv == [k \in {} |-> 0]

Buckets == Range(Days) \X Devices \X OwnerIds

Put(r, f) == f @@ r

\* the handler returns `response`; the slot holds it until it is delivered
Finish(p, response) ==
    /\ pc' = [pc EXCEPT ![p] = "done"]
    /\ rq' = [rq EXCEPT ![p] = NoReq]
    /\ resp' = [resp EXCEPT ![p] = response]

\* the handler parks on its next await
Goto(p, label, locals) ==
    /\ pc' = [pc EXCEPT ![p] = label]
    /\ rq' = [rq EXCEPT ![p] = locals]
    /\ resp' = resp

\* an exception escaping the handler: Hono's default error handler answers 500
Throw(p) ==
    Finish(p, [status |-> 500, kind |-> rq[p].kind, error |-> "Internal Server Error",
               req |-> rq[p].req, kvFailed |-> FALSE])

Idle(p) == pc[p] = "idle"

Deliver(p) ==
    /\ pc[p] = "done"
    /\ pc' = [pc EXCEPT ![p] = "idle"]
    /\ resp' = [resp EXCEPT ![p] = NoResp]
    /\ UNCHANGED <<today, remote, cache, kv, rq, issued, assigned, nreq, overlapped>>

(***************************************************************************)
(* Fairness selector and ad pools (GET /v1/ads)                            *)
(***************************************************************************)
\* faulty variant: ties go to the second owner
SelectTopOwnerStrict(topCountA, topCountB, ownerA, ownerB) ==
    IF topCountA < topCountB THEN ownerA ELSE ownerB

\* faulty variant: the counts are not looked at
SelectTopOwnerFirst(topCountA, topCountB, ownerA, ownerB) == ownerA

SelectTopOwner(topCountA, topCountB, ownerA, ownerB) ==
    IF topCountA <= topCountB THEN ownerA ELSE ownerB

BottomOwner(topOwner, ownerA, ownerB) ==
    IF topOwner.id = ownerA.id THEN ownerB ELSE ownerA

\* faulty variant: the status filter is dropped
AllAds(config) == config.ads

ActiveAds(config) == SelectSeq(config.ads, LAMBDA a : a.status = "active")

OwnerAds(ads, owner) == SelectSeq(ads, LAMBDA a : a.ownerId = owner.id)

EligiblePool(config, owner, labels) ==
    filterByLabels(OwnerAds(ActiveAds(config), owner), labels)

\* faulty variant: the status is not looked at
FindAdAnyStatus(config, adId) ==
    SelectSeq(config.ads, LAMBDA a : a.id = adId)

FindActiveAd(config, adId) ==
    SelectSeq(config.ads, LAMBDA a : a.id = adId /\ a.status = "active")

(***************************************************************************)
(* getConfig: KV-cached config, one step per await                         *)
(***************************************************************************)
\* what each handler does once `await getConfig(c)` has returned `name`
Loaded(p, name) ==
    LET config == Doc(name)
        r == rq[p]
    IN  CASE r.kind = "ads" ->
               IF Len(config.owners) < 2
               THEN Finish(p, [status |-> 500, kind |-> "ads",
                               error |-> "Need 2 owners in config", cfg |-> name])
               ELSE Goto(p, "ads_getA", Put(r, [config |-> name]))
          [] r.kind = "click" ->
               LET found == FindActiveAd(config, r.req.adId)
               IN  IF Len(found) = 0
                   THEN Finish(p, [status |-> 404, kind |-> "click",
                                   body |-> "Ad not found", req |-> r.req, cfg |-> name])
                   ELSE Goto(p, "incr_get",
                             Put(r, [config |-> name, ad |-> found[1], incr |-> "clkAd"]))
          [] r.kind = "stats" ->
               Goto(p, "stats_read", Put(r, [config |-> name]))

\* JSON.parse of the text held under `name`
Parsed(p, name) == IF name = GarbageDoc THEN Throw(p) ELSE Loaded(p, name)

\* faulty variant: the cached value is ignored and the source always asked
CfgGetAlwaysFetch(p) ==
    /\ pc[p] = "cfg_get"
    /\ Goto(p, "cfg_fetch", rq[p])
    /\ UNCHANGED <<today, remote, cache, kv, issued, assigned, nreq, overlapped>>

CfgGet(p) ==
    /\ pc[p] = "cfg_get"
    /\ IF cache # NoCache
       THEN Parsed(p, cache)
       ELSE Goto(p, "cfg_fetch", rq[p])
    /\ UNCHANGED <<today, remote, cache, kv, issued, assigned, nreq, overlapped>>

CfgFetch(p) ==
    /\ pc[p] = "cfg_fetch"
    /\ IF remote = Down
       THEN Throw(p)
       ELSE Goto(p, "cfg_put", Put(rq[p], [text |-> remote]))
    /\ UNCHANGED <<today, remote, cache, kv, issued, assigned, nreq, overlapped>>

CfgPut(p) ==
    /\ pc[p] = "cfg_put"
    /\ cache' = rq[p].text
    /\ Parsed(p, rq[p].text)
    /\ UNCHANGED <<today, remote, kv, issued, assigned, nreq, overlapped>>

(***************************************************************************)
(* GET /v1/ads                                                             *)
(***************************************************************************)
Alone(p) == \A q \in Procs \ {p} : pc[q] \in {"idle", "done"}

StartAds(p, inputs, limit) ==
    /\ Idle(p)
    /\ nreq < limit
    /\ \E req \in inputs :
         Goto(p, "cfg_get",
              [kind |-> "ads", req |-> req,
               device |-> IF isMobile(req) THEN "mobile" ELSE "desktop",
               labels |-> normalizeLabels(req.labels),
               day |-> dayBucket(today)])
    /\ nreq' = nreq + 1
    /\ overlapped' = (overlapped \/ ~Alone(p))
    /\ UNCHANGED <<today, remote, cache, kv, issued, assigned>>

OwnerA(r) == Doc(r.config).owners[1]
OwnerB(r) == Doc(r.config).owners[2]

AdsGetA(p) ==
    /\ pc[p] = "ads_getA"
    /\ LET r == rq[p]
       IN  Goto(p, "ads_getB",
                Put(r, [topCountA |->
                          kvGetInt(kv, TopKey(r.day, r.device, OwnerA(r).id))]))
    /\ UNCHANGED <<today, remote, cache, kv, issued, assigned, nreq, overlapped>>

AdsGetB(p) ==
    /\ pc[p] = "ads_getB"
    /\ LET r == rq[p]
           config == Doc(r.config)
           topCountB == kvGetInt(kv, TopKey(r.day, r.device, OwnerB(r).id))
           topOwner == SelectTopOwner(r.topCountA, topCountB, OwnerA(r), OwnerB(r))
           bottomOwner == BottomOwner(topOwner, OwnerA(r), OwnerB(r))
           topAds == EligiblePool(config, topOwner, r.labels)
           bottomAds == EligiblePool(config, bottomOwner, r.labels)
       IN  IF Len(topAds) = 0 \/ Len(bottomAds) = 0
           THEN Finish(p, [status |-> 404, kind |-> "ads",
                           error |-> "No eligible ads for one/both owners",
                           details |-> [topOwner |-> topOwner.id,
                                        bottomOwner |-> bottomOwner.id,
                                        topAds |-> Len(topAds),
                                        bottomAds |-> Len(bottomAds)],
                           sel |-> [cfg |-> r.config, labels |-> r.labels,
                                    topOwner |-> topOwner.id,
                                    bottomOwner |-> bottomOwner.id,
                                    countA |-> r.topCountA, countB |-> topCountB]])
           ELSE \E r1 \in Draws(topAds), r2 \in Draws(bottomAds) :
                  Goto(p, "incr_get",
                       Put(r, [topCountB |-> topCountB,
                               topOwner |-> topOwner,
                               bottomOwner |-> bottomOwner,
                               topAd |-> weightedRandom(topAds, r1),
                               bottomAd |-> weightedRandom(bottomAds, r2),
                               incr |-> "top"]))
    /\ UNCHANGED <<today, remote, cache, kv, issued, assigned, nreq, overlapped>>

AdsResponse(r) ==
    LET tTop == signToken(CLICK_TOKEN_SECRET,
                          Payload(r.day, r.device, "top", r.topAd.id))
        tBottom == signToken(CLICK_TOKEN_SECRET,
                             Payload(r.day, r.device, "bottom", r.bottomAd.id))
    IN  [status |-> 200, kind |-> "ads",
         meta |-> [day |-> r.day, device |-> r.device,
                   topOwner |-> r.topOwner.id, bottomOwner |-> r.bottomOwner.id,
                   topCounts |-> (OwnerB(r).id :> r.topCountB)
                                 @@ (OwnerA(r).id :> r.topCountA)],
         top |-> [id |-> r.topAd.id, ownerId |-> r.topAd.ownerId,
                  title |-> r.topAd.title, imageUrl |-> ImageFor(r.topAd, r.device),
                  clickUrl |-> ClickUrl(r.topAd.id, tTop, "top", r.day, r.device)],
         bottom |-> [id |-> r.bottomAd.id, ownerId |-> r.bottomAd.ownerId,
                     title |-> r.bottomAd.title,
                     imageUrl |-> ImageFor(r.bottomAd, r.device),
                     clickUrl |-> ClickUrl(r.bottomAd.id, tBottom, "bottom",
                                           r.day, r.device)],
         sel |-> [cfg |-> r.config, labels |-> r.labels,
                  topOwner |-> r.topOwner.id, bottomOwner |-> r.bottomOwner.id,
                  countA |-> r.topCountA, countB |-> r.topCountB]]

(***************************************************************************)
(* GET /c/:adId                                                            *)
(***************************************************************************)
StartClick(p, inputs, limit) ==
    /\ Idle(p)
    /\ nreq < limit
    /\ \E req \in inputs :
         LET payload == Payload(req.d, req.dev, req.pos, req.adId)
             ok == verifyToken(CLICK_TOKEN_SECRET, payload, req.t)
         IN  IF ~ok
             THEN Finish(p, [status |-> 403, kind |-> "click",
                             body |-> "Invalid token", req |-> req])
             ELSE Goto(p, "cfg_get", [kind |-> "click", req |-> req])
    /\ nreq' = nreq + 1
    /\ UNCHANGED <<today, remote, cache, kv, issued, assigned, overlapped>>

RedirectUrl(ad, adId, pos, dev) ==
    [base |-> ad.targetUrl, utm_source |-> "pathgriho", utm_medium |-> "internal_ads",
     utm_campaign |-> adId, utm_content |-> pos \o "_" \o dev]

\* faulty variant: the click is counted and then answered as not found
ClickResponseNotFound(r) ==
    [status |-> 404, kind |-> "click", body |-> "Ad not found",
     req |-> r.req, cfg |-> r.config]

ClickResponse(r) ==
    [status |-> 302, kind |-> "click",
     location |-> RedirectUrl(r.ad, r.req.adId, r.req.pos, r.req.dev),
     req |-> r.req, cfg |-> r.config]

(***************************************************************************)
(* kvIncr: a read and a separate write                                     *)
(***************************************************************************)
\* faulty variant: clicks are counted under the day on which they arrive
IncrKeyToday(r) ==
    CASE r.incr = "top" -> TopKey(r.day, r.device, r.topOwner.id)
      [] r.incr = "adTop" -> AdImpKey(r.day, r.topAd.id)
      [] r.incr = "adBot" -> AdImpKey(r.day, r.bottomAd.id)
      [] r.incr = "clkAd" -> AdClkKey(dayBucket(today), r.req.adId)
      [] r.incr = "clkPos" ->
           PosClkKey(dayBucket(today), r.req.pos, r.req.dev, r.ad.ownerId)

IncrKey(r) ==
    CASE r.incr = "top" -> TopKey(r.day, r.device, r.topOwner.id)
      [] r.incr = "adTop" -> AdImpKey(r.day, r.topAd.id)
      [] r.incr = "adBot" -> AdImpKey(r.day, r.bottomAd.id)
      [] r.incr = "clkAd" -> AdClkKey(r.req.d, r.req.adId)
      [] r.incr = "clkPos" -> PosClkKey(r.req.d, r.req.pos, r.req.dev, r.ad.ownerId)

KvIncrGet(p) ==
    /\ pc[p] = "incr_get"
    /\ Goto(p, "incr_put", Put(rq[p], [cur |-> kvGetInt(kv, IncrKey(rq[p]))]))
    /\ UNCHANGED <<today, remote, cache, kv, issued, assigned, nreq, overlapped>>

\* faulty variant: the increment is applied twice
IncrNextTwice(r) == r.cur + 2

\* faulty variant: the increment is subtracted
IncrNextNegated(r) == r.cur - 1

IncrNext(r) == r.cur + 1

KvIncrPut(p) ==
    /\ pc[p] = "incr_put"
    /\ LET r == rq[p]
       IN  /\ kv' = kvPut(kv, IncrKey(r), IncrNext(r))
           /\ CASE r.incr = "top" -> Goto(p, "incr_get", Put(r, [incr |-> "adTop"]))
                [] r.incr = "adTop" -> Goto(p, "incr_get", Put(r, [incr |-> "adBot"]))
                [] r.incr = "adBot" -> Finish(p, AdsResponse(r))
                [] r.incr = "clkAd" -> Goto(p, "incr_get", Put(r, [incr |-> "clkPos"]))
                [] r.incr = "clkPos" -> Finish(p, ClickResponse(r))
           /\ IF r.incr = "adBot"
              THEN /\ issued' = issued \cup {AdsResponse(r).top.clickUrl,
                                             AdsResponse(r).bottom.clickUrl}
                   /\ assigned' = [assigned EXCEPT
                                     ![<<r.day, r.device, r.topOwner.id>>] = @ + 1]
              ELSE UNCHANGED <<issued, assigned>>
    /\ UNCHANGED <<today, remote, cache, nreq, overlapped>>

(***************************************************************************)
(* GET /v1/stats                                                           *)
(***************************************************************************)
StartStats(p, inputs, limit) ==
    /\ Idle(p)
    /\ nreq < limit
    /\ \E req \in inputs :
         Goto(p, "cfg_get",
              [kind |-> "stats", req |-> req,
               day |-> IF req.day # "" THEN req.day ELSE dayBucket(today),
               dev |-> IF req.dev # "" THEN req.dev ELSE "mobile"])
    /\ nreq' = nreq + 1
    /\ UNCHANGED <<today, remote, cache, kv, issued, assigned, overlapped>>

StatsRead(p) ==
    /\ pc[p] = "stats_read"
    /\ LET r == rq[p]
           all == Doc(r.config).owners
           owners == SubSeq(all, 1, IF Len(all) < 2 THEN Len(all) ELSE 2)
       IN  Finish(p, [status |-> 200, kind |-> "stats", day |-> r.day, dev |-> r.dev,
                      top |-> [id \in {owners[i].id : i \in DOMAIN owners} |->
                                 kvGetInt(kv, TopKey(r.day, r.dev, id))]])
    /\ UNCHANGED <<today, remote, cache, kv, issued, assigned, nreq, overlapped>>

(***************************************************************************)
(* Environment                                                             *)
(***************************************************************************)
\* the document behind CONFIG_URL is edited, or the source goes down / comes back
EditConfig(docs) ==
    /\ \E d \in docs \ {remote} : remote' = d
    /\ UNCHANGED <<today, cache, kv, pc, rq, resp, issued, assigned, nreq, overlapped>>

\* the expirationTtl of cfg:config elapses
ExpireCache ==
    /\ cache # NoCache
    /\ cache' = NoCache
    /\ UNCHANGED <<today, remote, kv, pc, rq, resp, issued, assigned, nreq, overlapped>>

\* local midnight in DATE_TIMEZONE
Midnight ==
    /\ today < Len(Days)
    /\ today' = today + 1
    /\ UNCHANGED <<remote, cache, kv, pc, rq, resp, issued, assigned, nreq, overlapped>>

\* a counter-store operation (KV get or put of a counter key) rejects
KvFault(p) ==
    /\ pc[p] \in {"ads_getA", "ads_getB", "incr_get", "incr_put", "stats_read"}
    /\ Finish(p, [status |-> 500, kind |-> rq[p].kind,
                  error |-> "Internal Server Error", req |-> rq[p].req,
                  kvFailed |-> TRUE])
    /\ UNCHANGED <<today, remote, cache, kv, issued, assigned, nreq, overlapped>>

(***************************************************************************)
(* Request inputs                                                          *)
(***************************************************************************)
AdsInputs ==
    {[chMobile |-> h[1], uaMobile |-> h[2], labels |-> l] :
        h \in {<<"", FALSE>>, <<"", TRUE>>, <<"?1", FALSE>>, <<"?0", TRUE>>},
        l \in {"", " Home,x", "kitchen"}}

StatsInputs == {[day |-> "", dev |-> ""], [day |-> Days[1], dev |-> "desktop"]}

\* an absent query parameter reads as "unknown" (and an absent t as "")
DayInputs == Range(Days) \cup {"unknown"}
DevInputs == Devices \cup {"unknown"}
PosInputs == {"top", "bottom", "unknown"}
AdIdInputs == {"a1", "a2", "sale|a2", "zz"}

Truncated(t) == SubSeq(t, 1, Len(t) - 1)

\* every other way of cutting the same payload text into four fields
Resplits(u) ==
    LET s == Payload(u.d, u.dev, u.pos, u.adId)
        bars == {i \in 1 .. Len(s) : SubSeq(s, i, i) = "|"}
    IN  {[u EXCEPT !.d = SubSeq(s, 1, i - 1),
                   !.dev = SubSeq(s, i + 1, j - 1),
                   !.pos = SubSeq(s, j + 1, k - 1),
                   !.adId = SubSeq(s, k + 1, Len(s))] :
            <<i, j, k>> \in {t \in bars \X bars \X bars : t[1] < t[2] /\ t[2] < t[3]}}

\* an emitted click URL followed as is, or with fields edited by the client
ClickVariants(u) ==
    {u}
    \cup {[u EXCEPT !.d = x] : x \in DayInputs}
    \cup {[u EXCEPT !.dev = x] : x \in DevInputs}
    \cup {[u EXCEPT !.pos = x] : x \in PosInputs}
    \cup {[u EXCEPT !.adId = x] : x \in AdIdInputs}
    \cup {[u EXCEPT !.t = x] : x \in {"", "AAAA", Truncated(u.t)} \cup {v.t : v \in issued}}
    \cup Resplits(u)

BlindClicks ==
    {ClickUrl(a, t, "unknown", "unknown", "unknown") : a \in {"a1", "zz"}, t \in {"", "AAAA"}}

ClickInputs == BlindClicks \cup UNION {ClickVariants(u) : u \in issued}

(***************************************************************************)
(* Specifications of the KV worker                                         *)
(***************************************************************************)
Init ==
    /\ today = 1
    /\ remote = "main"
    /\ cache = NoCache
    /\ kv = EmptyKv
    /\ pc = [p \in Procs |-> "idle"]
    /\ rq = [p \in Procs |-> NoReq]
    /\ resp = [p \in Procs |-> NoResp]
    /\ issued = {}
    /\ assigned = [b \in Buckets |-> 0]
    /\ nreq = 0
    /\ overlapped = FALSE

Steps(p) ==
    \/ CfgGet(p)
    \/ CfgFetch(p)
    \/ CfgPut(p)
    \/ AdsGetA(p)
    \/ AdsGetB(p)
    \/ KvIncrGet(p)
    \/ KvIncrPut(p)
    \/ Deliver(p)

\* requests handled one after another
Next ==
    \/ StartAds(1, AdsInputs, MaxRequests)
    \/ StartClick(1, ClickInputs, MaxRequests)
    \/ StartStats(1, StatsInputs, MaxRequests)
    \/ Steps(1)
    \/ StatsRead(1)
    \/ EditConfig({"main", "paused"})
    \/ ExpireCache

Spec == Init /\ [][Next]_vars

\* the same, with a counter store whose operations may reject
NextFaulty == Next \/ KvFault(1)

SpecFaulty == Init /\ [][NextFaulty]_vars

\* /v1/ads requests of one (day, device) bucket in flight together
BucketInputs == {[chMobile |-> "", uaMobile |-> FALSE, labels |-> ""]}

NextConc == \E p \in Procs : StartAds(p, BucketInputs, MaxOverlapped) \/ Steps(p)

SpecConc == Init /\ [][NextConc]_vars

(***************************************************************************)
(* The stateless worker (src/src/index.ts): no KV, no click tokens.  Its   *)
(* only await is the config fetch, so a request is one step.  The `sel`    *)
(* field of a response is history, as in the KV worker; countA and countB  *)
(* are the top assignments made so far in the request's bucket, which is   *)
(* what the fairness counters stand for.                                   *)
(***************************************************************************)
RandomTopOwner(coin, ownerA, ownerB) == IF coin THEN ownerA ELSE ownerB

StatelessAds(p, inputs, limit) ==
    /\ Idle(p)
    /\ nreq < limit
    /\ nreq' = nreq + 1
    /\ \E req \in inputs, coin \in BOOLEAN :
         IF remote \in {Down, GarbageDoc}
         THEN /\ Finish(p, [status |-> 500, kind |-> "ads",
                            error |-> "Internal Server Error"])
              /\ assigned' = assigned
         ELSE LET config == Doc(remote)
                  device == IF isMobile(req) THEN "mobile" ELSE "desktop"
              IN  IF Len(config.owners) # 2
                  THEN /\ Finish(p, [status |-> 500, kind |-> "ads",
                                     error |-> "Config must contain exactly 2 owners",
                                     cfg |-> remote])
                       /\ assigned' = assigned
                  ELSE LET ownerA == config.owners[1]
                           ownerB == config.owners[2]
                           topOwner == RandomTopOwner(coin, ownerA, ownerB)
                           bottomOwner == BottomOwner(topOwner, ownerA, ownerB)
                           topPool == OwnerAds(ActiveAds(config), topOwner)
                           bottomPool == OwnerAds(ActiveAds(config), bottomOwner)
                           sel == [cfg |-> remote, labels |-> <<>>,
                                   topOwner |-> topOwner.id,
                                   bottomOwner |-> bottomOwner.id,
                                   countA |-> assigned[<<dayBucket(today), device,
                                                         ownerA.id>>],
                                   countB |-> assigned[<<dayBucket(today), device,
                                                         ownerB.id>>]]
                       IN  IF Len(topPool) = 0 \/ Len(bottomPool) = 0
                           THEN /\ Finish(p, [status |-> 500, kind |-> "ads",
                                      error |-> "Missing active ads for one or both owners",
                                      details |-> [topOwner |-> topOwner.id,
                                                   bottomOwner |-> bottomOwner.id,
                                                   topPool |-> Len(topPool),
                                                   bottomPool |-> Len(bottomPool)],
                                      sel |-> sel])
                                /\ assigned' = assigned
                           ELSE \E r1 \in Draws(topPool), r2 \in Draws(bottomPool) :
                                  LET topAd == weightedRandom(topPool, r1)
                                      bottomAd == weightedRandom(bottomPool, r2)
                                  IN  /\ Finish(p, [status |-> 200, kind |-> "ads",
                                            top |-> [imageUrl |-> ImageFor(topAd, device),
                                                     clickUrl |-> topAd.targetUrl,
                                                     ownerId |-> topAd.ownerId],
                                            bottom |-> [imageUrl |-> ImageFor(bottomAd, device),
                                                        clickUrl |-> bottomAd.targetUrl,
                                                        ownerId |-> bottomAd.ownerId],
                                            sel |-> sel])
                                      /\ assigned' = [assigned EXCEPT
                                            ![<<dayBucket(today), device, topOwner.id>>]
                                                = @ + 1]
    /\ UNCHANGED <<today, remote, cache, kv, issued, overlapped>>

NextStateless ==
    \/ StatelessAds(1, AdsInputs, MaxRequests)
    \/ Deliver(1)
    \/ EditConfig(RemoteStates)

SpecStateless == Init /\ [][NextStateless]_vars

(***************************************************************************)
(* The KV worker across midnight: impressions and clicks, one request at a *)
(* time, while the day of DATE_TIMEZONE advances                           *)
(***************************************************************************)
DeviceInputs ==
    {[chMobile |-> "", uaMobile |-> FALSE, labels |-> ""],
     [chMobile |-> "?1", uaMobile |-> FALSE, labels |-> ""]}

NextDays ==
    \/ StartAds(1, DeviceInputs, MaxRequests)
    \/ StartClick(1, ClickInputs, MaxRequests)
    \/ Steps(1)
    \/ Midnight

SpecDays == Init /\ [][NextDays]_vars

(***************************************************************************)
(* The KV worker while the config source changes: other documents, an      *)
(* unparsable body, a non-2xx answer                                       *)
(***************************************************************************)
NextSource ==
    \/ StartAds(1, BucketInputs, MaxRequests)
    \/ Steps(1)
    \/ EditConfig(RemoteStates)
    \/ ExpireCache

SpecSource == Init /\ [][NextSource]_vars

(***************************************************************************)
(* The KV worker with every error path open: impressions and clicks, one   *)
(* request at a time, while the config source changes or fails             *)
(***************************************************************************)
NextErrors ==
    \/ StartAds(1, BucketInputs, MaxRequests)
    \/ StartClick(1, ClickInputs, MaxRequests)
    \/ Steps(1)
    \/ EditConfig(RemoteStates)
    \/ ExpireCache

SpecErrors == Init /\ [][NextErrors]_vars

(***************************************************************************)
(* The KV worker with overlapping /v1/ads requests while the config        *)
(* document is edited and the cache entry expires                          *)
(***************************************************************************)
NextCache ==
    \/ \E p \in Procs : StartAds(p, BucketInputs, MaxCached) \/ Steps(p)
    \/ EditConfig({"main", "paused"})
    \/ ExpireCache

SpecCache == Init /\ [][NextCache]_vars

(***************************************************************************)
(* Properties                                                              *)
(***************************************************************************)
Abs(n) == IF n < 0 THEN -n ELSE n

Secrets == {CLICK_TOKEN_SECRET, "k-old"}

TopKeys == {TopKey(b[1], b[2], b[3]) : b \in Buckets}

IsActiveIn(name, adId) ==
    \E i \in DOMAIN Doc(name).ads :
        Doc(name).ads[i].id = adId /\ Doc(name).ads[i].status = "active"

TokenMatches(req) ==
    req.t = signToken(CLICK_TOKEN_SECRET, Payload(req.d, req.dev, req.pos, req.adId))

SameTuple(a, b) == a.d = b.d /\ a.dev = b.dev /\ a.pos = b.pos /\ a.adId = b.adId

\* the number of the fields day, device, position, adId in which a and b differ
FieldsChanged(a, b) ==
    (IF a.d = b.d THEN 0 ELSE 1) + (IF a.dev = b.dev THEN 0 ELSE 1)
    + (IF a.pos = b.pos THEN 0 ELSE 1) + (IF a.adId = b.adId THEN 0 ELSE 1)

\* C1: with requests handled one after another and counters starting at 0, in
\* every (day, device) bucket the numbers of top assignments of owners[0] and
\* of owners[1] never differ by more than 1.
C1_FairnessBound ==
    \A d \in Range(Days), dev \in Devices :
        Abs(assigned[<<d, dev, Cozy.id>>] - assigned[<<d, dev, Fancy.id>>]) <= 1

\* C2: top goes to owners[0] exactly when countA <= countB and to owners[1]
\* exactly when countA > countB; bottom is the other of the two owners.
C2_AssignmentRule ==
    \A p \in Procs :
        LET r == resp[p]
        IN  (r.kind = "ads" /\ "sel" \in DOMAIN r) =>
              LET owners == Doc(r.sel.cfg).owners
              IN  /\ (r.sel.topOwner = owners[1].id) <=> (r.sel.countA <= r.sel.countB)
                  /\ (r.sel.topOwner = owners[2].id) <=> (r.sel.countA > r.sel.countB)
                  /\ r.sel.bottomOwner \in {owners[1].id, owners[2].id} \ {r.sel.topOwner}

\* C3: from a fresh bucket and with requests handled one after another, the
\* k-th successful /v1/ads response of the bucket gives top to owners[0] when
\* k is odd and to owners[1] when k is even, and bottom to the other owner.
C3_StrictAlternation ==
    \A p \in Procs :
        LET r == resp[p]
        IN  (r.kind = "ads" /\ r.status = 200) =>
              LET owners == Doc(r.sel.cfg).owners
                  k == assigned[<<r.meta.day, r.meta.device, owners[1].id>>]
                       + assigned[<<r.meta.day, r.meta.device, owners[2].id>>]
              IN  /\ r.meta.topOwner = owners[IF k % 2 = 1 THEN 1 ELSE 2].id
                  /\ r.meta.bottomOwner = owners[IF k % 2 = 1 THEN 2 ELSE 1].id
                  /\ r.top.ownerId = r.meta.topOwner
                  /\ r.bottom.ownerId = r.meta.bottomOwner

C3_SecondRequestServed ==
    \E p \in Procs :
        /\ resp[p].kind = "ads"
        /\ resp[p].status = 200
        /\ resp[p].meta.topOwner = Fancy.id
        /\ resp[p].sel.countA = 1
        /\ resp[p].sel.countB = 0

\* C4 (codec half): a token verifies with the four fields it was issued for
\* and with no 4-tuple that differs from them in exactly one field.
TokenRoundTrip ==
    \A secret \in Secrets, d \in DayInputs, dev \in DevInputs,
       pos \in PosInputs \cup {"top|sale"}, adId \in AdIdInputs :
        LET token == signToken(secret, Payload(d, dev, pos, adId))
        IN  /\ verifyToken(secret, Payload(d, dev, pos, adId), token)
            /\ \A x \in DayInputs \ {d} :
                 ~verifyToken(secret, Payload(x, dev, pos, adId), token)
            /\ \A x \in DevInputs \ {dev} :
                 ~verifyToken(secret, Payload(d, x, pos, adId), token)
            /\ \A x \in (PosInputs \cup {"top|sale"}) \ {pos} :
                 ~verifyToken(secret, Payload(d, dev, x, adId), token)
            /\ \A x \in AdIdInputs \ {adId} :
                 ~verifyToken(secret, Payload(d, dev, pos, x), token)

\* C4: token round trip: the issued token verifies with its own four fields
\* and fails once exactly one of day, device, position, adId is changed; every
\* click URL emitted by /v1/ads passes verification in /c/:adId.
C4_TokenRoundTrip ==
    /\ TokenRoundTrip
    /\ \A p \in Procs :
         LET r == resp[p]
         IN  r.kind = "click" =>
               /\ r.req \in issued => r.status # 403
               /\ (\E u \in issued : u.t = r.req.t /\ FieldsChanged(u, r.req) = 1)
                    => r.status = 403

C4_EmittedUrlAccepted ==
    \E p \in Procs :
        /\ resp[p].kind = "click"
        /\ resp[p].status = 302
        /\ resp[p].req \in issued

\* C5: every click request that passes token verification carries a
\* (day, device, position, adId) for which /v1/ads issued a token.
C5_ClickBoundToImpression ==
    \A p \in Procs :
        LET r == resp[p]
        IN  (r.kind = "click" /\ r.status \in {302, 404}) =>
              \E u \in issued : SameTuple(u, r.req)

\* C6: a click whose token is not the one recomputed from its own day, device,
\* position and adId ends in 403 and never in a redirect, whatever the ad.
C6_InvalidTokenRejected ==
    \A p \in Procs :
        LET r == resp[p]
        IN  (r.kind = "click" /\ ~TokenMatches(r.req)) =>
              /\ r.status = 403
              /\ "location" \notin DOMAIN r

C6_TruncatedTokenRejected ==
    \E p \in Procs, u \in issued :
        /\ resp[p].kind = "click"
        /\ resp[p].status = 403
        /\ resp[p].req = [u EXCEPT !.t = Truncated(u.t)]
        /\ IsActiveIn(cache, u.adId)

\* C7: a click with a verifying token for an ad that is absent from, or
\* inactive in, the loaded config gets 404; 302 needs a verifying token and
\* an active ad.
C7_InactiveAdNotFound ==
    \A p \in Procs :
        LET r == resp[p]
        IN  r.kind = "click" =>
              /\ (TokenMatches(r.req) /\ "cfg" \in DOMAIN r
                    /\ ~IsActiveIn(r.cfg, r.req.adId))
                   => (r.status = 404 /\ "location" \notin DOMAIN r)
              /\ r.status = 302
                   => (TokenMatches(r.req) /\ IsActiveIn(r.cfg, r.req.adId))

C7_ValidTokenPausedAd ==
    \E p \in Procs :
        /\ resp[p].kind = "click"
        /\ resp[p].status = 404
        /\ resp[p].req \in issued
        /\ resp[p].cfg = "paused"
        /\ resp[p].req.adId = AdLamp.id

\* C8: when the pool of the top or of the bottom owner is empty, /v1/ads
\* answers 404 with details naming both owners and both pool sizes; otherwise
\* both slots are filled, by ads of two different owners.
C8_NoEligibleAds404 ==
    \A p \in Procs :
        LET r == resp[p]
        IN  (r.kind = "ads" /\ "sel" \in DOMAIN r) =>
              LET config == Doc(r.sel.cfg)
                  owner(id) == CHOOSE o \in Range(config.owners) : o.id = id
                  topPool == EligiblePool(config, owner(r.sel.topOwner), r.sel.labels)
                  bottomPool == EligiblePool(config, owner(r.sel.bottomOwner),
                                             r.sel.labels)
              IN  IF Len(topPool) = 0 \/ Len(bottomPool) = 0
                  THEN /\ r.status = 404
                       /\ r.details = [topOwner |-> r.sel.topOwner,
                                       bottomOwner |-> r.sel.bottomOwner,
                                       topAds |-> Len(topPool),
                                       bottomAds |-> Len(bottomPool)]
                  ELSE /\ r.status = 200
                       /\ r.top.ownerId = r.sel.topOwner
                       /\ r.bottom.ownerId = r.sel.bottomOwner
                       /\ r.top.ownerId # r.bottom.ownerId

\* C9: a /v1/ads or /c/:adId request during which a counter-store operation
\* failed still succeeds (200 with both ads, or 302).
C9_CountersBestEffort ==
    \A p \in Procs :
        LET r == resp[p]
        IN  (r.kind \in {"ads", "click"} /\ "kvFailed" \in DOMAIN r /\ r.kvFailed) =>
              r.status \in {200, 302}

\* C10 as stated: under any interleaving of /v1/ads requests no top-impression
\* counter ever decreases from one state to the next.
C10_MonotoneAnyInterleaving ==
    [][\A k \in TopKeys : kvGetInt(kv', k) >= kvGetInt(kv, k)]_vars

\* C10 as amended: no top-impression counter decreases from one state to the
\* next as long as /v1/ads requests have been handled one after another.
C10_MonotoneSerialized ==
    [][~overlapped' => \A k \in TopKeys : kvGetInt(kv', k) >= kvGetInt(kv, k)]_vars

C10_SerialCounterGrown ==
    /\ ~overlapped
    /\ kvGetInt(kv, TopKey(Days[1], "desktop", Cozy.id)) = 2

\* requests of bucket b that have written the top counter and not yet answered
InFlightTop(b) ==
    Cardinality({p \in Procs :
        /\ rq[p].kind = "ads"
        /\ "incr" \in DOMAIN rq[p]
        /\ rq[p].incr \in {"adTop", "adBot"}
        /\ <<rq[p].day, rq[p].device, rq[p].topOwner.id>> = b})

\* C11: lost updates: kvIncr writes the value it read plus 1, so with
\* overlapping /v1/ads requests a stored top counter never exceeds the number
\* of top assignments made to its owner, and it can fall short of it: two
\* requests of one bucket both given top for the same owner leave it at 1.
C11_LostUpdates ==
    \A b \in Buckets :
        kvGetInt(kv, TopKey(b[1], b[2], b[3])) <= assigned[b] + InFlightTop(b)

C11_TwoAssignmentsOneCount ==
    /\ nreq = 2
    /\ overlapped
    /\ \A p \in Procs : pc[p] \in {"idle", "done"}
    /\ assigned[<<Days[1], "desktop", Cozy.id>>] = 2
    /\ kvGetInt(kv, TopKey(Days[1], "desktop", Cozy.id)) = 1

LabelLists == {normalizeLabels(x.labels) : x \in AdsInputs} \cup {<<"garden">>}

\* the ads of pool with at least one tag equal, ignoring case, to a label
Matching(pool, labels) ==
    SelectSeq(pool, LAMBDA a :
        \E i \in DOMAIN AdTags(a), j \in DOMAIN labels :
            toLowerCase(AdTags(a)[i]) = toLowerCase(labels[j]))

LabelFallback ==
    \A name \in ParsableDocs, labels \in LabelLists :
        \A o \in DOMAIN Doc(name).owners :
            LET pool == OwnerAds(ActiveAds(Doc(name)), Doc(name).owners[o])
                eligible == filterByLabels(pool, labels)
            IN  /\ labels = <<>> => eligible = pool
                /\ (labels # <<>> /\ Matching(pool, labels) # <<>>)
                     => eligible = Matching(pool, labels)
                /\ (labels # <<>> /\ Matching(pool, labels) = <<>>) => eligible = pool
                /\ (eligible = <<>>) <=> (pool = <<>>)

\* C12: label fallback: the eligible pool is the owner's active ads when no
\* label is given, the ads matching a label when there are any, and all the
\* owner's active ads when none matches; a /v1/ads request fails for want of
\* ads only if one of the two owners has no active ad at all.
C12_LabelFallback ==
    /\ LabelFallback
    /\ \A p \in Procs :
         LET r == resp[p]
         IN  (r.kind = "ads" /\ r.status = 404) =>
               LET config == Doc(r.sel.cfg)
                   owner(id) == CHOOSE o \in Range(config.owners) : o.id = id
               IN  \/ OwnerAds(ActiveAds(config), owner(r.sel.topOwner)) = <<>>
                   \/ OwnerAds(ActiveAds(config), owner(r.sel.bottomOwner)) = <<>>

C12_UnmatchedLabelServed ==
    \E p \in Procs :
        /\ resp[p].kind = "ads"
        /\ resp[p].status = 200
        /\ resp[p].sel.labels = <<"kitchen">>
        /\ Matching(ActiveAds(Doc(resp[p].sel.cfg)), resp[p].sel.labels) = <<>>

\* pools of one to three ads with declared weight 3, missing, 0 and negative
WeightedAds == {AdSofa, AdLamp, AdSale, [AdExtra EXCEPT !.weight = -2]}

WeightPools ==
    {<<a>> : a \in WeightedAds}
    \cup {q \in WeightedAds \X WeightedAds : q[1] # q[2]}
    \cup {q \in WeightedAds \X WeightedAds \X WeightedAds :
             q[1] # q[2] /\ q[1] # q[3] /\ q[2] # q[3]}

\* max(1, declared weight or 1)
ClampedWeight(a) ==
    IF "weight" \notin DOMAIN a THEN 1 ELSE IF a.weight < 1 THEN 1 ELSE a.weight

RECURSIVE ClampedTotal(_)
ClampedTotal(pool) ==
    IF pool = <<>> THEN 0 ELSE ClampedWeight(Head(pool)) + ClampedTotal(Tail(pool))

WeightedPickTotal ==
    \A pool \in WeightPools :
        /\ Draws(pool) = 0 .. (DrawScale * ClampedTotal(pool) - 1)
        /\ \A r \in Draws(pool) : weightedRandom(pool, r) \in Range(pool)
        /\ \A i \in DOMAIN pool : \E r \in Draws(pool) : weightedRandom(pool, r) = pool[i]

\* C13: weighted pick totality: for every non-empty pool and every draw in
\* [0, total), total being the sum of max(1, weight or 1), weightedRandom
\* returns an ad of the pool, and every ad of the pool, whatever its declared
\* weight, is returned for some draw; the ads /v1/ads serves come from the
\* pools it built.
C13_WeightedPickTotal ==
    /\ WeightedPickTotal
    /\ \A p \in Procs :
         LET r == resp[p]
         IN  (r.kind = "ads" /\ r.status = 200) =>
               LET config == Doc(r.sel.cfg)
                   owner(id) == CHOOSE o \in Range(config.owners) : o.id = id
                   ids(pool) == {pool[i].id : i \in DOMAIN pool}
               IN  /\ r.top.id \in
                        ids(EligiblePool(config, owner(r.sel.topOwner), r.sel.labels))
                   /\ r.bottom.id \in
                        ids(EligiblePool(config, owner(r.sel.bottomOwner), r.sel.labels))

C13_ZeroWeightAdServed ==
    \E p \in Procs :
        /\ resp[p].kind = "ads"
        /\ resp[p].status = 200
        /\ resp[p].top.id = AdSale.id
        /\ AdSale.weight = 0

ClickCounted(p) ==
    LET r == rq[p]
        key == IF r.incr = "clkAd" THEN AdClkKey(r.req.d, r.req.adId)
               ELSE PosClkKey(r.req.d, r.req.pos, r.req.dev, r.ad.ownerId)
    IN  kv' = kvPut(kv, key, kvGetInt(kv, key) + 1)

\* C14: no expiry and replay: whatever the current day and the counters, a
\* click is rejected exactly when its token is not the one of its own four
\* fields, a click with a verifying token for an active ad is redirected, and
\* each counter write of a click adds 1 to a click counter of the day named
\* in the request, both counters having been written when the 302 is given.
C14_NoExpiryReplay ==
    /\ [](\A p \in Procs :
            LET r == resp[p]
            IN  r.kind = "click" =>
                  /\ (r.status = 403) <=> ~TokenMatches(r.req)
                  /\ (TokenMatches(r.req) /\ IsActiveIn(r.cfg, r.req.adId))
                       => r.status = 302
                  /\ r.status = 302 =>
                       /\ kvGetInt(kv, AdClkKey(r.req.d, r.req.adId)) >= 1
                       /\ \E o \in OwnerIds :
                            kvGetInt(kv, PosClkKey(r.req.d, r.req.pos,
                                                   r.req.dev, o)) >= 1)
    /\ [][\A p \in Procs :
            (rq[p].kind = "click" /\ pc[p] = "incr_put" /\ pc'[p] # pc[p])
              => ClickCounted(p)]_vars

C14_ReplayedNextDay ==
    \E p \in Procs :
        /\ today = 2
        /\ resp[p].kind = "click"
        /\ resp[p].status = 302
        /\ resp[p].req \in issued
        /\ resp[p].req.d = Days[1]
        /\ kvGetInt(kv, AdClkKey(Days[1], resp[p].req.adId)) = 2
        /\ kvGetInt(kv, AdClkKey(Days[2], resp[p].req.adId)) = 0

\* C15: a config load failure does not poison the cache: with an empty cache,
\* a non-2xx answer or an unparsable body fails the request with nothing
\* stored under cfg:config, so unparsable text is never cached and a request
\* made while the source serves a parsable document does not fail on loading
\* the config.
C15_FailureDoesNotPoison ==
    /\ [](cache # GarbageDoc)
    /\ [][\A p \in Procs :
            /\ (pc[p] = "cfg_fetch" /\ remote = Down /\ pc'[p] # pc[p])
                 => (resp'[p].status = 500 /\ cache' = cache)
            /\ (pc[p] = "cfg_put" /\ rq[p].text = GarbageDoc /\ pc'[p] # pc[p])
                 => (resp'[p].status = 500 /\ cache' = cache)
            /\ (pc[p] = "cfg_get" /\ remote \in ParsableDocs /\ pc'[p] = "done")
                 => resp'[p].error # "Internal Server Error"]_vars

\* C16: two-owner participation: with fewer than two owners in the config
\* /v1/ads answers 500 without selecting; with two or more it selects, top
\* and bottom owner are owners[0] and owners[1], and the ads served belong to
\* those two, so ads of further owners and of unknown owners are never served.
C16_TwoOwnerParticipation ==
    \A p \in Procs :
        LET r == resp[p]
        IN  (r.kind = "ads" /\ ("sel" \in DOMAIN r \/ "cfg" \in DOMAIN r)) =>
              LET name == IF "sel" \in DOMAIN r THEN r.sel.cfg ELSE r.cfg
                  owners == Doc(name).owners
              IN  IF Len(owners) < 2
                  THEN r.status = 500 /\ "sel" \notin DOMAIN r
                  ELSE /\ "sel" \in DOMAIN r
                       /\ {r.sel.topOwner, r.sel.bottomOwner}
                            = {owners[1].id, owners[2].id}
                       /\ r.status = 200 =>
                            /\ r.top.ownerId \in {owners[1].id, owners[2].id}
                            /\ r.bottom.ownerId \in {owners[1].id, owners[2].id}

IsClickKey(k) == SubSeq(k, 1, 4) = "clk:"

\* p is at the kv.put of the kvIncr of its top-impression counter
AtTopWrite(p) ==
    /\ rq[p].kind = "ads"
    /\ pc[p] = "incr_put"
    /\ rq[p].incr = "top"

\* C17: effect of a successful impression, requests handled one at a time:
\* every top-impression counter equals the number of successful /v1/ads
\* requests that gave top to its owner in its (day, device); among the steps
\* of a /v1/ads request only the write of its own top owner's counter changes
\* a top-impression counter, by exactly 1, and none changes a click counter.
C17_ImpressionEffect ==
    /\ [](\A b \in Buckets :
            kvGetInt(kv, TopKey(b[1], b[2], b[3])) = assigned[b] + InFlightTop(b))
    /\ [][\A p \in Procs :
            (rq[p].kind = "ads" /\ pc'[p] # pc[p]) =>
              /\ \A b \in Buckets :
                   kvGetInt(kv', TopKey(b[1], b[2], b[3]))
                     = kvGetInt(kv, TopKey(b[1], b[2], b[3]))
                       + (IF /\ AtTopWrite(p)
                             /\ b = <<rq[p].day, rq[p].device, rq[p].topOwner.id>>
                          THEN 1 ELSE 0)
              /\ \A k \in DOMAIN kv \cup DOMAIN kv' :
                   IsClickKey(k) => (k \in DOMAIN kv /\ kv'[k] = kv[k])]_vars

C17_OtherCountersKept ==
    \E p \in Procs :
        /\ resp[p].kind = "ads"
        /\ resp[p].status = 200
        /\ resp[p].meta.day = Days[2]
        /\ resp[p].meta.device = "mobile"
        /\ resp[p].meta.topOwner = Cozy.id
        /\ kvGetInt(kv, TopKey(Days[2], "mobile", Cozy.id)) = 1
        /\ kvGetInt(kv, TopKey(Days[2], "mobile", Fancy.id)) = 0
        /\ kvGetInt(kv, TopKey(Days[1], "desktop", Cozy.id)) = 1
        /\ \E a \in AdIdInputs : kvGetInt(kv, AdClkKey(Days[1], a)) = 1

\* C18: stale-read decision race: the counter reads that decide the top owner
\* write nothing, the increment being a later step; the top assignments of the
\* two owners of a bucket differ by more than 1 only once /v1/ads requests
\* have overlapped, and then they do: two requests read the same pair of
\* counts and are given the same top owner.
C18_StaleReadRace ==
    /\ [](~overlapped =>
            \A d \in Range(Days), dev \in Devices :
                Abs(assigned[<<d, dev, Cozy.id>>] - assigned[<<d, dev, Fancy.id>>]) <= 1)
    /\ [][\A p \in Procs :
            (pc[p] \in {"ads_getA", "ads_getB"} /\ pc'[p] # pc[p]) => kv' = kv]_vars

C18_SameCountsSameOwner ==
    /\ overlapped
    /\ \A p \in Procs : pc[p] = "done" /\ resp[p].kind = "ads" /\ resp[p].status = 200
    /\ resp[1].sel.countA = resp[2].sel.countA
    /\ resp[1].sel.countB = resp[2].sel.countB
    /\ resp[1].sel.topOwner = resp[2].sel.topOwner
    /\ \E d \in Range(Days), dev \in Devices :
         Abs(assigned[<<d, dev, Cozy.id>>] - assigned[<<d, dev, Fancy.id>>]) = 2

\* k has the shape imp:<day>:top:<device>:<ownerId>
IsTopKey(k) == SubSeq(k, 1, 4) = "imp:" /\ includes(k, ":top:")

Written(k) ==
    \/ (k \in DOMAIN kv) # (k \in DOMAIN kv')
    \/ k \in DOMAIN kv /\ k \in DOMAIN kv' /\ kv'[k] # kv[k]

\* C19: only successful impressions move fairness counters: a key of the
\* shape imp:<day>:top:<device>:<ownerId> is written only by the step of a
\* /v1/ads request that has fixed its top owner and found both pools
\* non-empty, and it is the key of that owner; no step of a /c/:adId or
\* /v1/stats request writes such a key.
C19_OnlyImpressionsMoveFairness ==
    [][/\ \A k \in DOMAIN kv \cup DOMAIN kv' :
            (IsTopKey(k) /\ Written(k)) =>
              \E p \in Procs :
                  /\ AtTopWrite(p)
                  /\ k = TopKey(rq[p].day, rq[p].device, rq[p].topOwner.id)
                  /\ rq[p].topOwner.id \in {OwnerA(rq[p]).id, OwnerB(rq[p]).id}
                  /\ EligiblePool(Doc(rq[p].config), rq[p].topOwner, rq[p].labels) # <<>>
                  /\ EligiblePool(Doc(rq[p].config), rq[p].bottomOwner, rq[p].labels)
                       # <<>>
       /\ \A p \in Procs :
            (rq[p].kind \in {"click", "stats"} /\ pc'[p] # pc[p]) =>
              \A k \in DOMAIN kv \cup DOMAIN kv' : IsTopKey(k) => ~Written(k)]_vars

C19_ClickLeftFairnessAlone ==
    \E p \in Procs :
        /\ resp[p].kind = "click"
        /\ resp[p].status = 302
        /\ resp[p].req.pos = "top"
        /\ \E o \in OwnerIds :
             /\ kvGetInt(kv, PosClkKey(resp[p].req.d, "top", resp[p].req.dev, o)) = 1
             /\ kvGetInt(kv, TopKey(resp[p].req.d, resp[p].req.dev, o)) = 1
        /\ \A k \in DOMAIN kv : IsTopKey(k) => kv[k] = 1

\* the ad of document `name` with the given id
AdOf(name, adId) ==
    CHOOSE a \in Range(Doc(name).ads) : a.id = adId

\* C20: served ads are eligible: in every 200 response of /v1/ads the top ad
\* is an active ad of the config owned by the owner assigned top, the bottom
\* ad an active ad owned by the owner assigned bottom, and the two are
\* different ads of different owners.
C20_ServedAdsEligible ==
    \A p \in Procs :
        LET r == resp[p]
        IN  (r.kind = "ads" /\ r.status = 200) =>
              /\ IsActiveIn(r.sel.cfg, r.top.id)
              /\ AdOf(r.sel.cfg, r.top.id).ownerId = r.meta.topOwner
              /\ r.top.ownerId = r.meta.topOwner
              /\ IsActiveIn(r.sel.cfg, r.bottom.id)
              /\ AdOf(r.sel.cfg, r.bottom.id).ownerId = r.meta.bottomOwner
              /\ r.bottom.ownerId = r.meta.bottomOwner
              /\ r.meta.topOwner # r.meta.bottomOwner
              /\ r.top.id # r.bottom.id

C20_BothSlotsServed ==
    \E p \in Procs :
        /\ resp[p].kind = "ads"
        /\ resp[p].status = 200
        /\ resp[p].top.id = AdLamp.id
        /\ resp[p].bottom.id = AdSale.id
        /\ resp[p].meta.topOwner = Fancy.id
        /\ resp[p].meta.bottomOwner = Cozy.id

\* p has entered its first kvIncr
Counting(p) == "incr" \in DOMAIN rq[p]

\* C21: error responses have no counter effect, requests handled one at a
\* time: counters are written only by a request that has entered its kvIncr
\* calls, such a request stays there until it answers, and every response
\* other than 200 and 302 (500 for fewer than two owners or a config load
\* failure, 404 for an empty pool, 403 and 404 of /c/:adId) comes from a
\* request that never entered them, by a step that writes nothing.
C21_ErrorsLeaveCounters ==
    [][\A p \in Procs :
         /\ (pc'[p] # pc[p] /\ kv' # kv) => (Counting(p) /\ pc[p] = "incr_put")
         /\ (Counting(p) /\ pc'[p] # pc[p]) =>
              \/ "incr" \in DOMAIN rq'[p]
              \/ pc'[p] = "done" /\ resp'[p].status \in {200, 302}
         /\ (pc[p] # "done" /\ pc'[p] = "done" /\ resp'[p].status \notin {200, 302}) =>
              /\ ~Counting(p)
              /\ kv' = kv
              /\ resp'[p].status \in {403, 404, 500}]_vars

C21_ErrorAfterImpression ==
    \E p \in Procs :
        /\ resp[p].kind = "ads"
        /\ resp[p].status = 500
        /\ resp[p].error = "Need 2 owners in config"
        /\ kvGetInt(kv, TopKey(Days[1], "desktop", Cozy.id)) = 1
        /\ assigned[<<Days[1], "desktop", Cozy.id>>] = 1
        /\ \A k \in DOMAIN kv : kv[k] = 1

\* p has fetched the config itself and has written it to the cache
FetchedAndStored(p) == "text" \in DOMAIN rq[p] /\ "config" \in DOMAIN rq[p]

\* C22: config cache: while cfg:config holds a value getConfig hands it to the
\* handler without fetching, whatever the source now serves, and leaves the
\* entry alone; on a miss it goes on to fetch, takes what the source serves
\* and stores that under cfg:config; whether another request is fetching or
\* has stored plays no part, so two requests that miss both fetch and store.
C22_ConfigCache ==
    [][\A p \in Procs :
         /\ (pc[p] = "cfg_get" /\ cache # NoCache /\ pc'[p] # pc[p]) =>
              /\ pc'[p] # "cfg_fetch"
              /\ cache' = cache
              /\ "text" \notin DOMAIN rq'[p]
              /\ pc'[p] = "ads_getA" => rq'[p].config = cache
         /\ (pc[p] = "cfg_get" /\ cache = NoCache /\ pc'[p] # pc[p]) =>
              pc'[p] = "cfg_fetch" /\ cache' = cache
         /\ (pc[p] = "cfg_fetch" /\ pc'[p] # pc[p]) =>
              pc'[p] = "cfg_put" /\ rq'[p].text = remote /\ cache' = cache
         /\ (pc[p] = "cfg_put" /\ pc'[p] # pc[p]) =>
              /\ cache' = rq[p].text
              /\ pc'[p] = "ads_getA" => rq'[p].config = rq[p].text]_vars

C22_BothMissedBothStored ==
    /\ \A p \in Procs : FetchedAndStored(p)
    /\ rq[1].text # rq[2].text
    /\ cache \in {rq[1].text, rq[2].text}

====
